---- MODULE Spec2Model ----
(***************************************************************************)
(* exec_logger: per-execution log folders with retention by age and by     *)
(* count (logger.rs), a level filter (log_level.rs, logger.rs) and a       *)
(* process-wide, replaceable logger slot (log.rs).                         *)
(*                                                                         *)
(* Time is counted in ticks of 1/TicksPerSecond second, so that the clock  *)
(* (Local::now) has a sub-second part while run-folder names hold whole    *)
(* seconds.  One log root is modelled; an entry under it is a name with a  *)
(* directory flag.  A name is [stamp, n]: stamp = TRUE is the text         *)
(* "YYYY-MM-DD HH_MM_SS" of second n, stamp = FALSE is any other text.     *)
(***************************************************************************)
EXTENDS Integers, Sequences, FiniteSets, TLC

\* ------------------------------------------------------------------ bounds
MaxInits == 2          \* initialize calls started in one behaviour
MaxCalls == 1          \* facade calls (log calls and path reads) in one behaviour
MaxTicks == 1          \* clock ticks in one behaviour
TicksPerSecond == 2    \* clock resolution below one second
MaxFormatLen == 6      \* characters of a message format handed to set_message_format
MaxNewlines == 2       \* newline characters at the end of a format or of a message

\* -------------------------------------------------------- program constants
SecondsPerDay == 86400     \* chrono Duration::days
StartupMessage == 0        \* the text "Logger initialized"; text k > 0 is "Message k"
LevelWidth == 7            \* the width in format!("{:<7}", level.to_string())

Threads == {"t1", "t2"}

\* ------------------------------------------------------------ Option<T>
None == [tag |-> "None"]
Some(x) == [tag |-> "Some", val |-> x]
IsSome(o) == o.tag = "Some"
IsNone(o) == o.tag = "None"

\* ------------------------------------------------------------ log_level.rs
Error == [kind |-> "Error", value |-> 0, display |-> ""]
Warn == [kind |-> "Warn", value |-> 0, display |-> ""]
Info == [kind |-> "Info", value |-> 0, display |-> ""]
Debug == [kind |-> "Debug", value |-> 0, display |-> ""]
Trace == [kind |-> "Trace", value |-> 0, display |-> ""]
Custom(value, display) == [kind |-> "Custom", value |-> value, display |-> display]

\* impl fmt::Display for LogLevel
LevelDisplay(level) ==
    CASE level.kind = "Error" -> "ERROR"
      [] level.kind = "Warn" -> "WARN"
      [] level.kind = "Info" -> "INFO"
      [] level.kind = "Debug" -> "DEBUG"
      [] level.kind = "Trace" -> "TRACE"
      [] OTHER -> level.display

\* impl From<&LogLevel> for i32
Severity(level) ==
    CASE level.kind = "Error" -> 50
      [] level.kind = "Warn" -> 40
      [] level.kind = "Info" -> 30
      [] level.kind = "Debug" -> 20
      [] level.kind = "Trace" -> 10
      [] OTHER -> level.value

\* an ordering that puts a level below another of the same severity
LevelLessOrEqual(a, b) == Severity(a) <= Severity(b)

\* impl Ord for LogLevel: cmp(a, b) = Less
LevelLess(a, b) == Severity(a) < Severity(b)

\* ------------------------------------------------------------ config.rs
LoggerConfiguration(ext, days, execs, filter) ==
    [file_extension |-> ext, days_stored |-> days, executions_stored |-> execs,
     filter_log_level |-> filter]

\* Text is a sequence of characters.  The keywords are written with their first
\* letter: "{MESSAGE}" is {M}, "{LEVEL}" is {L}, "{TIMESTAMP}" {T}, "{EXE_NAME}" {E},
\* "{SYSTEM_NAME}" {S}, "{USER_NAME}" {U}.
KeyMessage == <<"{", "M", "}">>
KeyLevel == <<"{", "L", "}">>
KeyTimestamp == <<"{", "T", "}">>
KeyExeName == <<"{", "E", "}">>
KeySystemName == <<"{", "S", "}">>
KeyUserName == <<"{", "U", "}">>

\* DEFAULT_MESSAGE_FORMAT
DEFAULT_MESSAGE_FORMAT ==
    <<"{", "T", "}", " ", "|", " ", "{", "E", "}", " ", "|", " ", "{", "S", "}", " ", "|", " ",
      "{", "U", "}", " ", "|", " ", "{", "L", "}", " ", "|", " ", "{", "M", "}">>

\* str::contains: pat occurs in text as a run of adjacent characters
Contains(text, pat) ==
    \E i \in 0..(Len(text) - Len(pat)) :
        \A j \in 1..Len(pat) : text[i + j] = pat[j]

\* str::replace: every match of pat, found from left to right without overlap,
\* is replaced by the text by; the inserted text is not searched again
RECURSIVE Replace(_, _, _)
Replace(text, pat, by) ==
    IF Len(text) < Len(pat) THEN text
    ELSE IF SubSeq(text, 1, Len(pat)) = pat
         THEN by \o Replace(SubSeq(text, Len(pat) + 1, Len(text)), pat, by)
         ELSE <<Head(text)>> \o Replace(Tail(text), pat, by)

\* str::ends_with('\n')
EndsWithNewline(text) == Len(text) > 0 /\ text[Len(text)] = "\n"

\* format!("{:<width}", text): spaces are added on the right up to the width, a
\* longer text is left as it is
PadRight(text, width) ==
    IF Len(text) >= width THEN text
    ELSE text \o [i \in 1..(width - Len(text)) |-> " "]

\* level.to_string(), as text; the display name of a custom level is a text
to_string(level) ==
    CASE level.kind = "Error" -> <<"E", "R", "R", "O", "R">>
      [] level.kind = "Warn" -> <<"W", "A", "R", "N">>
      [] level.kind = "Info" -> <<"I", "N", "F", "O">>
      [] level.kind = "Debug" -> <<"D", "E", "B", "U", "G">>
      [] level.kind = "Trace" -> <<"T", "R", "A", "C", "E">>
      [] OTHER -> level.display

\* get_message_format
get_message_format(message_format) ==
    IF IsSome(message_format) THEN message_format.val ELSE DEFAULT_MESSAGE_FORMAT

\* a set_message_format that asks for {MESSAGE} only
set_message_format_message_only(message_format, format) ==
    IF ~Contains(format, KeyMessage)
    THEN [message_format |-> message_format, ret |-> "InvalidFormat"]
    ELSE [message_format |-> Some(format), ret |-> "Ok"]

\* set_message_format: the field after the call and what the call returns
set_message_format(message_format, format) ==
    IF ~Contains(format, KeyMessage)
    THEN [message_format |-> message_format, ret |-> "InvalidFormat"]
    ELSE IF ~Contains(format, KeyLevel)
         THEN [message_format |-> message_format, ret |-> "InvalidFormat"]
         ELSE [message_format |-> Some(format), ret |-> "Ok"]

\* ------------------------------------------------------------ names, paths
StampName(sec) == [stamp |-> TRUE, n |-> sec]
OtherName(k) == [stamp |-> FALSE, n |-> k]
Dir(name) == [name |-> name, dir |-> TRUE]
File(name) == [name |-> name, dir |-> FALSE]

\* PathBuf::new(): the empty path
EmptyPath == [folder |-> OtherName(0), ext |-> ""]

\* current_datetime.format("%Y-%m-%d %H_%M_%S"): whole seconds, the rest is dropped
FormatFolderName(now) == StampName(now \div TicksPerSecond)

\* a parse that takes every name for a run timestamp
ParseAnyName(name) == Some(name.n * TicksPerSecond)

\* NaiveDateTime::parse_from_str(folder_name, "%Y-%m-%d %H_%M_%S")
ParseFolderName(name) ==
    IF name.stamp THEN Some(name.n * TicksPerSecond) ELSE None

\* a.to_string_lossy().cmp(&b.to_string_lossy()): stamp names are fixed-width
\* digits, other names sort before (n < 0) or after (n > 0) them
NameRank(name) == IF name.stamp THEN 1 ELSE IF name.n < 0 THEN 0 ELSE 2
PathLess(a, b) ==
    \/ NameRank(a) < NameRank(b)
    \/ NameRank(a) = NameRank(b) /\ a.n < b.n

\* Result<T, E>
Ok(x) == [tag |-> "Ok", val |-> x]
Err(e) == [tag |-> "Err", val |-> e]

\* std::fs::read_dir(&directory_path): io = "list" is the read that fails
read_dir(entries, io) == IF io = "list" THEN Err("read_dir") ELSE Ok(entries)

\* Logger::list_folders: the directories among the entries when read_dir gives
\* Ok(entries), no folder when it gives an error; the result is Ok in both cases
list_folders(dir) ==
    Ok(IF dir.tag = "Ok" THEN {e.name : e \in {x \in dir.val : x.dir}} ELSE {})

\* log_folders.sort_by(..): the names of a set, smallest first
RECURSIVE SortFolders(_)
SortFolders(S) ==
    IF S = {} THEN <<>>
    ELSE LET m == CHOOSE x \in S : \A y \in S \ {x} : PathLess(x, y)
         IN <<m>> \o SortFolders(S \ {m})

\* std::fs::remove_dir_all on the named folders
RemoveDirs(entries, names) == {e \in entries : ~(e.dir /\ e.name \in names)}

\* ------------------------------------------------------------ logger.rs
\* Logger { config, log_file_path: PathBuf::new() }; id tells the values of
\* different Logger::new calls apart (two Loggers with equal fields are two values)
NewLogger(config, id) == [id |-> id, config |-> config, log_file_path |-> EmptyPath]

\* limit_datetime = Local::now().naive_local() - Duration::days(days_stored)
LimitDatetime(now, days_stored) == now - days_stored * SecondsPerDay * TicksPerSecond

\* a comparison that also takes the folder dated exactly at the limit
AgeExpiredOrAtLimit(datetime, limit_datetime) == datetime <= limit_datetime

\* datetime < limit_datetime
AgeExpired(datetime, limit_datetime) == datetime < limit_datetime

\* delete_old_logs, 1): the folders the date loop hands to remove_dir_all
AgeCandidates(log_folders, days_stored, now) ==
    {f \in log_folders :
        /\ IsSome(ParseFolderName(f))
        /\ AgeExpired(ParseFolderName(f).val, LimitDatetime(now, days_stored))}

\* a count that reserves no place for the current execution
NumDeleteNoReserve(log_folders, executions_stored) ==
    Cardinality(log_folders) - executions_stored

\* num_delete = log_folders.len() as i64 - (executions_stored as i64 - 1)
NumDelete(log_folders, executions_stored) ==
    Cardinality(log_folders) - (executions_stored - 1)

\* a counter that also goes down when the removal failed
CountAttempt(num_delete, removed) == num_delete - 1

\* if let Err(e) = remove_dir_all(&folder) { eprintln!(..) } else { num_delete -= 1 }
CountRemoved(num_delete, removed) == IF removed THEN num_delete - 1 ELSE num_delete

\* delete_old_logs, 2): the loop over the sorted folders from position i on;
\* gives the folders removed and the folders whose removal failed
RECURSIVE CountLoop(_, _, _, _)
CountLoop(folders, i, num_delete, undeletable) ==
    IF i > Len(folders) THEN [removed |-> {}, failed |-> {}]
    ELSE LET folder == folders[i]
             removed == folder \notin undeletable
             left == CountRemoved(num_delete, removed)
             here == IF removed THEN [removed |-> {folder}, failed |-> {}]
                     ELSE [removed |-> {}, failed |-> {folder}]
             rest == CountLoop(folders, i + 1, left, undeletable)
         IN IF IsNone(ParseFolderName(folder))
            THEN CountLoop(folders, i + 1, num_delete, undeletable)
            ELSE IF left <= 0 THEN here
                 ELSE [removed |-> here.removed \cup rest.removed,
                       failed |-> here.failed \cup rest.failed]

\* a count pass that walks the folders newest first
CountPassNewestFirst(log_folders, executions_stored, undeletable) ==
    LET num_delete == NumDelete(log_folders, executions_stored)
        sorted == SortFolders(log_folders)
        newest_first == [i \in 1..Len(sorted) |-> sorted[Len(sorted) + 1 - i]]
    IN IF num_delete > 0
       THEN CountLoop(newest_first, 1, num_delete, undeletable)
       ELSE [removed |-> {}, failed |-> {}]

\* delete_old_logs, 2): if num_delete > 0, sort and loop
CountPass(log_folders, executions_stored, undeletable) ==
    LET num_delete == NumDelete(log_folders, executions_stored)
    IN IF num_delete > 0
       THEN CountLoop(SortFolders(log_folders), 1, num_delete, undeletable)
       ELSE [removed |-> {}, failed |-> {}]

\* let days_stored = self.config.get_days_stored(): the option of the date pass
DaysOption(config) == config.days_stored

\* a count option that is dropped when days_stored is set
ExecutionsOptionUnlessDays(config) ==
    IF IsSome(config.days_stored) THEN None ELSE config.executions_stored

\* let executions_stored = self.config.get_executions_stored(): the option of the
\* count pass
ExecutionsOption(config) == config.executions_stored

\* a pass that returns an error when a removal failed
PassResultStrict(log_folders, failed) ==
    IF log_folders.tag = "Err" THEN log_folders
    ELSE IF failed # {} THEN Err("remove_dir_all") ELSE Ok({})

\* delete_old_logs, the result of a pass: list_folders(..)? returns the error of
\* the listing; a failed remove_dir_all is printed to stderr and the pass goes on
PassResult(log_folders, failed) ==
    IF log_folders.tag = "Err" THEN log_folders ELSE Ok({})

\* Logger::format_message: the text and the level's name in the line
FormatMessage(config, message, level) ==
    [message |-> message, level |-> LevelDisplay(level)]

\* if msg.contains(key) { msg = msg.replace(key, value) }
ReplaceKey(msg, key, value) ==
    IF Contains(msg, key) THEN Replace(msg, key, value) ELSE msg

\* Logger::format_message up to its last step: the keywords are replaced one
\* after the other, each in the text the replacements before it have made
Substituted(format, a) ==
    LET m1 == ReplaceKey(format, KeyTimestamp, a.timestamp)
        m2 == ReplaceKey(m1, KeyExeName, a.exe_name)
        m3 == ReplaceKey(m2, KeySystemName, a.system_name)
        m4 == ReplaceKey(m3, KeyUserName, a.user_name)
        m5 == ReplaceKey(m4, KeyLevel, PadRight(to_string(a.level), LevelWidth))
    IN ReplaceKey(m5, KeyMessage, a.message)

\* a last step that always pushes a newline
PushNewline(msg) == msg \o <<"\n">>

\* if !msg.ends_with('\n') { msg.push('\n') }
EnsureNewline(msg) == IF ~EndsWithNewline(msg) THEN msg \o <<"\n">> ELSE msg

\* Logger::format_message, as text: the format of the configuration, the
\* timestamp, the names of the configuration, the level and the message
format_message(format, a) == EnsureNewline(Substituted(format, a))

\* Logger::log: *level < filter_level returns at once
Filtered(filter_level, level) ==
    IsSome(filter_level) /\ LevelLess(level, filter_level.val)

\* ------------------------------------------------------------ state
VARIABLES
    clock,      \* Local::now(), in ticks
    fs,         \* the entries under the log root
    undel,      \* run folders whose remove_dir_all fails
    faults,     \* the failures the file system may answer with: "create", "open", "write"
    message_format, \* the message_format field of the configuration a caller sets up
    formatArg,  \* the format handed to the last set_message_format
    formatRet,  \* what the last set_message_format returned
    fmtArg,     \* what the running format_message was called with
    fmtRet,     \* the text the last format_message returned
    files,      \* the log files: path -> the lines appended
    stdout,     \* the lines printed
    stderr,     \* the kinds of eprintln! output seen
    LOGGER,     \* static LOGGER: None (unset cell) or Some(logger)
    pc,         \* where each thread is
    logger,     \* the Logger a thread's Logger::new is building
    guard,      \* what a thread's get_logger returned
    call,       \* the message and level of a thread's log call
    initRet,    \* what a thread's last initialize returned
    pathRet,    \* what the last get_log_file_path returned
    nInit,      \* initialize calls started
    nPath,      \* get_log_file_path calls made
    nLog,       \* facade log calls started; the k-th logs "Message k"
    built,      \* history: the loggers Logger::new returned
    lastOk,     \* history: the logger of the last initialize that returned Ok
    loaded,     \* history: the logger the k-th log call got (None: no logger)
    pre         \* history: the root and the clock as the last retention pass saw them

vars == <<clock, fs, undel, faults, message_format, formatArg, formatRet, fmtArg, fmtRet, files, stdout, stderr, LOGGER, pc, logger, guard, call,
          initRet, pathRet, nInit, nLog, nPath, built, lastOk, loaded, pre>>

\* the clock when the model starts: a whole second
Now0 == 30 * SecondsPerDay * TicksPerSecond
Second0 == Now0 \div TicksPerSecond

\* the value of a thread's logger variable outside Logger::new
NoLogger == NewLogger(LoggerConfiguration("", None, None, None), 0)
NoCall == [message |-> StartupMessage, level |-> Info]
NoFormatCall == [timestamp |-> <<>>, exe_name |-> <<>>, system_name |-> <<>>,
                 user_name |-> <<>>, level |-> Info, message |-> <<>>]
NoPre == [fs |-> {}, now |-> 0, pass |-> "none", read |-> "none"]

\* the files left when the named folders are removed with all they hold
RemoveFiles(fl, names) ==
    [p \in {q \in DOMAIN fl : q.folder \notin names} |-> fl[p]]

\* a Logger::log that opens the file before it prints and gives up when the file
\* fails
LoggerLogFileFirst(lg, message, level, io) ==
    IF Filtered(lg.config.filter_log_level, level)
          \/ io # "ok" \/ Dir(lg.log_file_path.folder) \notin fs
    THEN [stdout |-> stdout, files |-> files, stderr |-> stderr]
    ELSE LET line == FormatMessage(lg.config, message, level)
             path == lg.log_file_path
             old == IF path \in DOMAIN files THEN files[path] ELSE <<>>
         IN [stdout |-> Append(stdout, line),
             files |-> [p \in DOMAIN files \cup {path} |->
                          IF p = path THEN old \o <<line>> ELSE files[p]],
             stderr |-> stderr]

\* Logger::log on the current output: the output after the call.  io is what the
\* file system does: "ok", "open" (open fails) or "write" (write_all fails)
LoggerLog(lg, message, level, io) ==
    IF Filtered(lg.config.filter_log_level, level)
    THEN [stdout |-> stdout, files |-> files, stderr |-> stderr]
    ELSE LET line == FormatMessage(lg.config, message, level)
             path == lg.log_file_path
             old == IF path \in DOMAIN files THEN files[path] ELSE <<>>
             opened == io # "open" /\ Dir(path.folder) \in fs
             new == IF io = "ok" THEN old \o <<line>> ELSE old
         IN [stdout |-> Append(stdout, line),
             files |-> IF opened
                       THEN [p \in DOMAIN files \cup {path} |->
                                IF p = path THEN new ELSE files[p]]
                       ELSE files,
             stderr |-> IF ~opened THEN stderr \cup {"Unable to open log file"}
                        ELSE IF io = "write"
                             THEN stderr \cup {"Unable to write log message to log file"}
                             ELSE stderr]

\* what the file system may answer to a step that can fail in the ways of kinds
IoOutcomes(kinds) == {"ok"} \cup (faults \cap kinds)

\* ------------------------------------------------------------ actions
\* the clock advances
Tick ==
    /\ clock < Now0 + TicksPerSecond - 1 + MaxTicks
    /\ clock' = clock + 1
    /\ UNCHANGED <<fs, undel, faults, message_format, formatArg, formatRet, fmtArg, fmtRet, files, stdout, stderr, LOGGER, pc, logger, guard, call,
                   initRet, pathRet, nInit, nLog, nPath, built, lastOk, loaded, pre>>

\* log::initialize(config) is entered; Logger::new makes the Logger value
InitializeBegin(t, config) ==
    /\ pc[t] = "idle"
    /\ nInit < MaxInits
    /\ nInit' = nInit + 1
    /\ logger' = [logger EXCEPT ![t] = NewLogger(config, nInit + 1)]
    /\ initRet' = [initRet EXCEPT ![t] = "running"]
    /\ pc' = [pc EXCEPT ![t] = "delete_date"]
    /\ UNCHANGED <<clock, fs, undel, faults, message_format, formatArg, formatRet, fmtArg, fmtRet, files, stdout, stderr, LOGGER, guard, call,
                   pathRet, nLog, nPath, built, lastOk, loaded, pre>>

\* delete_old_logs, 1) Delete based on date
DeleteByDate(t) ==
    /\ pc[t] = "delete_date"
    /\ LET days_stored == DaysOption(logger[t].config)
       IN \E io \in (IF IsSome(days_stored) THEN IoOutcomes({"list"}) ELSE {"none"}) :
            LET log_folders == IF IsSome(days_stored)
                               THEN list_folders(read_dir(fs, io)) ELSE Ok({})
                cand == IF IsSome(days_stored) /\ log_folders.tag = "Ok"
                        THEN AgeCandidates(log_folders.val, days_stored.val, clock)
                        ELSE {}
                removed == cand \ undel
            IN /\ fs' = RemoveDirs(fs, removed)
               /\ files' = RemoveFiles(files, removed)
               /\ stderr' = IF cand \cap undel # {}
                            THEN stderr \cup {"Failed to delete old log folder"}
                            ELSE stderr
               /\ pre' = [fs |-> fs, now |-> clock, pass |-> "date", read |-> io]
               /\ pc' = [pc EXCEPT ![t] =
                           IF PassResult(log_folders, cand \cap undel).tag = "Err"
                           THEN "new_err" ELSE "delete_count"]
    /\ UNCHANGED <<clock, undel, faults, message_format, formatArg, formatRet, fmtArg, fmtRet, stdout,
                   LOGGER, logger, guard, call, initRet, pathRet, nInit, nLog, nPath,
                   built, lastOk, loaded>>

\* delete_old_logs, 2) Delete based on number of logs
DeleteByCount(t) ==
    /\ pc[t] = "delete_count"
    /\ LET executions_stored == ExecutionsOption(logger[t].config)
       IN \E io \in (IF IsSome(executions_stored) THEN IoOutcomes({"list"}) ELSE {"none"}) :
            LET log_folders == IF IsSome(executions_stored)
                               THEN list_folders(read_dir(fs, io)) ELSE Ok({})
                res == IF IsSome(executions_stored) /\ log_folders.tag = "Ok"
                       THEN CountPass(log_folders.val, executions_stored.val, undel)
                       ELSE [removed |-> {}, failed |-> {}]
            IN /\ fs' = RemoveDirs(fs, res.removed)
               /\ files' = RemoveFiles(files, res.removed)
               /\ stderr' = IF res.failed # {}
                            THEN stderr \cup {"Failed to delete old log folder"}
                            ELSE stderr
               /\ pre' = [fs |-> fs, now |-> clock, pass |-> "count", read |-> io]
               /\ pc' = [pc EXCEPT ![t] =
                           IF PassResult(log_folders, res.failed).tag = "Err"
                           THEN "new_err" ELSE "create"]
    /\ UNCHANGED <<clock, undel, faults, message_format, formatArg, formatRet, fmtArg, fmtRet, stdout,
                   LOGGER, logger, guard, call, initRet, pathRet, nInit, nLog, nPath,
                   built, lastOk, loaded>>

\* create_current_log: create_dir_all succeeds (also on an existing folder) or
\* fails, and then Logger::new returns the error
CreateCurrentLog(t) ==
    /\ pc[t] = "create"
    /\ \E io \in IoOutcomes({"create"}) :
         LET folder_name == FormatFolderName(clock)
             log_file_path == [folder |-> folder_name,
                               ext |-> logger[t].config.file_extension]
         IN IF io = "ok" /\ File(folder_name) \notin fs
            THEN /\ fs' = fs \cup {Dir(folder_name)}
                 /\ logger' = [logger EXCEPT ![t].log_file_path = log_file_path]
                 /\ pc' = [pc EXCEPT ![t] = "startup"]
            ELSE /\ pc' = [pc EXCEPT ![t] = "new_err"]
                 /\ UNCHANGED <<fs, logger>>
    /\ pre' = NoPre
    /\ UNCHANGED <<clock, undel, faults, message_format, formatArg, formatRet, fmtArg, fmtRet, files, stdout, stderr, LOGGER, guard, call, initRet,
                   pathRet, nInit, nLog, nPath, built, lastOk, loaded>>

\* logger.info("Logger initialized"); Ok(logger)
Startup(t) ==
    /\ pc[t] = "startup"
    /\ \E io \in IoOutcomes({"open", "write"}) :
         LET out == LoggerLog(logger[t], StartupMessage, Info, io)
         IN /\ stdout' = out.stdout
            /\ files' = out.files
            /\ stderr' = out.stderr
    /\ built' = built \cup {logger[t]}
    /\ pc' = [pc EXCEPT ![t] = "built"]
    /\ UNCHANGED <<clock, fs, undel, faults, message_format, formatArg, formatRet, fmtArg, fmtRet, LOGGER, logger, guard, call, initRet, pathRet,
                   nInit, nLog, nPath, lastOk, loaded, pre>>

\* Logger::error / warn / info / debug / trace / custom, called on the Logger that
\* Logger::new returned: self.log(message, &level)
LoggerCall(t, level) ==
    /\ pc[t] = "built"
    /\ nLog + nPath < MaxCalls
    /\ nLog' = nLog + 1
    /\ call' = [call EXCEPT ![t] = [message |-> nLog + 1, level |-> level]]
    /\ \E io \in IoOutcomes({"open", "write"}) :
         LET out == LoggerLog(logger[t], nLog + 1, level, io)
         IN /\ stdout' = out.stdout
            /\ files' = out.files
            /\ stderr' = out.stderr
    /\ loaded' = Append(loaded, Some(logger[t]))
    /\ UNCHANGED <<clock, fs, undel, faults, message_format, formatArg, formatRet, fmtArg, fmtRet, LOGGER, pc, logger, guard, initRet, pathRet,
                   nInit, nPath, built, lastOk, pre>>

\* ------------------------------------------------------------ config.rs
\* the formats a caller hands to set_message_format: every text of up to
\* MaxFormatLen of these characters
FormatChars == {"{", "}", "M", "L"}
Formats == UNION {[1..n -> FormatChars] : n \in 0..MaxFormatLen}

\* config.set_message_format(format), with a format out of F
SetMessageFormatFrom(F) ==
    /\ formatRet = "none"
    /\ \E format \in F :
         LET r == set_message_format(message_format, format)
         IN /\ message_format' = r.message_format
            /\ formatRet' = r.ret
            /\ formatArg' = format
    /\ stderr' = IF formatRet' = "InvalidFormat"
                 THEN stderr \cup {"Message format is unchanged"}
                 ELSE stderr
    /\ UNCHANGED <<clock, fs, undel, faults, fmtArg, fmtRet, files, stdout, LOGGER, pc, logger,
                   guard, call, initRet, pathRet, nInit, nLog, nPath, built, lastOk, loaded,
                   pre>>

\* config.set_message_format(format)
SetMessageFormat == SetMessageFormatFrom(Formats)

\* the caller has taken the Result of set_message_format
FormatReturned ==
    /\ formatRet # "none"
    /\ formatRet' = "none"
    /\ formatArg' = <<>>
    /\ UNCHANGED <<clock, fs, undel, faults, message_format, fmtArg, fmtRet, files, stdout,
                   stderr, LOGGER, pc, logger, guard, call, initRet, pathRet, nInit, nLog,
                   nPath, built, lastOk, loaded, pre>>

\* n newline characters
Newlines(n) == [i \in 1..n |-> "\n"]

\* what format_message is called with: the timestamp as formatted, the names held
\* by the configuration, a built-in or custom level and the message; names, level
\* names and messages may hold a keyword, messages may end with newlines
Timestamps == {<<"0">>}
ExeNames == {<<"x">>, KeyLevel}
SystemNames == {<<"s">>}
UserNames == {<<"u">>, KeyMessage}
TextLevels ==
    {Info, Trace, Custom(35, <<"N", "O", "T", "E">>),
     Custom(5, <<"V", "E", "R", "B", "O", "S", "E", "2">>), Custom(1, KeyMessage)}
Messages ==
    {<<"m">> \o Newlines(n) : n \in 0..MaxNewlines} \cup {<<>>, KeyMessage, KeyLevel}

\* self.format_message(message, level), called by Logger::log
FormatMessageCall ==
    /\ IsNone(fmtRet)
    /\ \E ts \in Timestamps, exe \in ExeNames, sys \in SystemNames, user \in UserNames,
          level \in TextLevels, message \in Messages :
         LET a == [timestamp |-> ts, exe_name |-> exe, system_name |-> sys,
                   user_name |-> user, level |-> level, message |-> message]
         IN /\ fmtArg' = a
            /\ fmtRet' = Some(format_message(get_message_format(message_format), a))
    /\ UNCHANGED <<clock, fs, undel, faults, message_format, formatArg, formatRet, files,
                   stdout, stderr, LOGGER, pc, logger, guard, call, initRet, pathRet, nInit,
                   nLog, nPath, built, lastOk, loaded, pre>>

\* Logger::log has taken the text
FormatMessageReturned ==
    /\ IsSome(fmtRet)
    /\ fmtRet' = None
    /\ fmtArg' = NoFormatCall
    /\ UNCHANGED <<clock, fs, undel, faults, message_format, formatArg, formatRet, files,
                   stdout, stderr, LOGGER, pc, logger, guard, call, initRet, pathRet, nInit,
                   nLog, nPath, built, lastOk, loaded, pre>>

\* ------------------------------------------------------------ log.rs
\* a get_logger that falls back to an empty logger when the cell is unset
get_logger_or_default(cell) == IF IsNone(cell) THEN Some(NoLogger) ELSE cell

\* get_logger: LOGGER.get() and, when the cell is set, load()
get_logger(cell) == cell

\* LOGGER.set(ArcSwap::from_pointee(logger)): fails when the cell is already set
OnceCellSet(cell, lg) ==
    IF IsNone(cell) THEN [cell |-> Some(lg), ret |-> "Ok"]
    ELSE [cell |-> cell, ret |-> "SetterError"]

\* a store that replaces the configuration and keeps the installed path
ArcSwapStoreConfigOnly(cell, lg) ==
    Some([id |-> lg.id, config |-> lg.config, log_file_path |-> cell.val.log_file_path])

\* a store that keeps the installed logger
ArcSwapStoreKeep(cell, lg) == cell

\* LOGGER.get().unwrap().store(Arc::new(logger))
ArcSwapStore(cell, lg) == Some(lg)

\* set_logger: if LOGGER.get().is_none()
SetLoggerCheck(t) ==
    /\ pc[t] = "built"
    /\ pc' = [pc EXCEPT ![t] = IF IsNone(LOGGER) THEN "set_first" ELSE "set_store"]
    /\ UNCHANGED <<clock, fs, undel, faults, message_format, formatArg, formatRet, fmtArg, fmtRet, files, stdout, stderr, LOGGER, logger, guard, call,
                   initRet, pathRet, nInit, nLog, nPath, built, lastOk, loaded, pre>>

\* set_logger: match LOGGER.set(..); initialize returns what set_logger returns
SetLoggerFirst(t) ==
    /\ pc[t] = "set_first"
    /\ LET r == OnceCellSet(LOGGER, logger[t])
       IN /\ LOGGER' = r.cell
          /\ initRet' = [initRet EXCEPT ![t] = r.ret]
          /\ lastOk' = IF r.ret = "Ok" THEN Some(logger[t]) ELSE lastOk
    /\ pc' = [pc EXCEPT ![t] = "idle"]
    /\ logger' = [logger EXCEPT ![t] = NoLogger]
    /\ UNCHANGED <<clock, fs, undel, faults, message_format, formatArg, formatRet, fmtArg, fmtRet, files, stdout, stderr, guard, call,
                   pathRet, nInit, nLog, nPath, built, loaded, pre>>

\* set_logger: the else branch; initialize returns Ok
SetLoggerStore(t) ==
    /\ pc[t] = "set_store"
    /\ LOGGER' = ArcSwapStore(LOGGER, logger[t])
    /\ initRet' = [initRet EXCEPT ![t] = "Ok"]
    /\ lastOk' = Some(logger[t])
    /\ pc' = [pc EXCEPT ![t] = "idle"]
    /\ logger' = [logger EXCEPT ![t] = NoLogger]
    /\ UNCHANGED <<clock, fs, undel, faults, message_format, formatArg, formatRet, fmtArg, fmtRet, files, stdout, stderr, guard, call,
                   pathRet, nInit, nLog, nPath, built, loaded, pre>>

\* an error return that also empties the registry
InitializeErrClear(t) ==
    /\ pc[t] = "new_err"
    /\ initRet' = [initRet EXCEPT ![t] = "IoError"]
    /\ logger' = [logger EXCEPT ![t] = NoLogger]
    /\ pc' = [pc EXCEPT ![t] = "idle"]
    /\ LOGGER' = None
    /\ UNCHANGED <<clock, fs, undel, faults, message_format, formatArg, formatRet, fmtArg, fmtRet, files, stdout, stderr, guard, call,
                   pathRet, nInit, nLog, nPath, built, lastOk, loaded, pre>>

\* initialize: let logger = Logger::new(config)?; the error is returned
InitializeErr(t) ==
    /\ pc[t] = "new_err"
    /\ initRet' = [initRet EXCEPT ![t] = "IoError"]
    /\ logger' = [logger EXCEPT ![t] = NoLogger]
    /\ pc' = [pc EXCEPT ![t] = "idle"]
    /\ UNCHANGED <<clock, fs, undel, faults, message_format, formatArg, formatRet, fmtArg, fmtRet, files, stdout, stderr, LOGGER, guard, call,
                   pathRet, nInit, nLog, nPath, built, lastOk, loaded, pre>>

\* get_log_file_path
GetLogFilePath(t) ==
    /\ pc[t] = "idle"
    /\ nLog + nPath < MaxCalls
    /\ nPath' = nPath + 1
    /\ LET g == get_logger(LOGGER)
       IN IF IsSome(g)
          THEN /\ pathRet' = Some(g.val.log_file_path)
               /\ UNCHANGED stderr
          ELSE /\ pathRet' = None
               /\ stderr' = stderr \cup {"Logger not initialized"}
    /\ UNCHANGED <<clock, fs, undel, faults, message_format, formatArg, formatRet, fmtArg, fmtRet, files, stdout, LOGGER, pc, logger, guard, call,
                   initRet, nInit, nLog, built, lastOk, loaded, pre>>

\* info / error / warn / debug / trace / custom: if let Some(logger) = get_logger()
FacadeLog(t, level) ==
    /\ pc[t] = "idle"
    /\ nLog + nPath < MaxCalls
    /\ nLog' = nLog + 1
    /\ LET g == get_logger(LOGGER)
       IN /\ loaded' = Append(loaded, g)
          /\ IF IsSome(g)
             THEN /\ guard' = [guard EXCEPT ![t] = g]
                  /\ call' = [call EXCEPT ![t] = [message |-> nLog + 1, level |-> level]]
                  /\ pc' = [pc EXCEPT ![t] = "log"]
                  /\ UNCHANGED stderr
             ELSE /\ stderr' = stderr \cup {"Logger not initialized"}
                  /\ UNCHANGED <<guard, call, pc>>
    /\ UNCHANGED <<clock, fs, undel, faults, message_format, formatArg, formatRet, fmtArg, fmtRet, files, stdout, LOGGER, logger, initRet, pathRet,
                   nInit, nPath, built, lastOk, pre>>

\* logger.info(..): the Logger the call runs on is the one the guard holds
GuardLogger(g, cell) == g.val

\* logger.info(message) etc. on the guard: Logger::log
FacadeWrite(t) ==
    /\ pc[t] = "log"
    /\ \E io \in IoOutcomes({"open", "write"}) :
         LET out == LoggerLog(GuardLogger(guard[t], LOGGER), call[t].message, call[t].level, io)
         IN /\ stdout' = out.stdout
            /\ files' = out.files
            /\ stderr' = out.stderr
    /\ guard' = [guard EXCEPT ![t] = None]
    /\ call' = [call EXCEPT ![t] = NoCall]
    /\ pc' = [pc EXCEPT ![t] = "idle"]
    /\ UNCHANGED <<clock, fs, undel, faults, message_format, formatArg, formatRet, fmtArg, fmtRet, LOGGER, logger, initRet, pathRet, nInit, nLog, nPath,
                   built, lastOk, loaded, pre>>

\* ------------------------------------------------------------ specification
\* the entries retention must leave alone (plain files, and folders whose name
\* is no run timestamp), and the run folders
ForeignEntries(entries) == {e \in entries : ~e.dir \/ ~e.name.stamp}
RunFolders(entries) == {e.name : e \in {x \in entries : x.dir /\ x.name.stamp}}

CustomLevels == {Custom(25, "STAT"), Custom(30, "NOTE"), Custom(45, "CUSTOM1")}
FacadeLevels == {Error, Warn, Info, Debug, Trace} \cup CustomLevels

\* the configurations of the facade's callers: both retention policies and a
\* filter, or none of them
Configs ==
    {LoggerConfiguration("txt", Some(7), Some(1), Some(Info)),
     LoggerConfiguration("log", None, None, None)}
\* the levels of the concurrent callers (Trace is below the filter Info) and of
\* the single caller
Levels == {Trace}
SeqLevels == {Info, Trace}

\* the log root when the process starts: two earlier runs, two foreign folders,
\* a plain file and a plain file named like a run folder
OldRun == StampName(Second0 - 8 * SecondsPerDay)
LastRun == StampName(Second0 - 1)
Root0 ==
    {Dir(OldRun), Dir(LastRun), Dir(OtherName(-1)), Dir(OtherName(1)),
     File(OtherName(2)), File(StampName(Second0 - 9 * SecondsPerDay))}

InitLocals ==
    /\ message_format = None
    /\ formatArg = <<>>
    /\ formatRet = "none"
    /\ fmtArg = NoFormatCall
    /\ fmtRet = None
    /\ stdout = <<>>
    /\ stderr = {}
    /\ files = <<>>
    /\ LOGGER = None
    /\ pc = [t \in Threads |-> "idle"]
    /\ logger = [t \in Threads |-> NoLogger]
    /\ guard = [t \in Threads |-> None]
    /\ call = [t \in Threads |-> NoCall]
    /\ initRet = [t \in Threads |-> "none"]
    /\ pathRet = None
    /\ nInit = 0
    /\ nLog = 0
    /\ nPath = 0
    /\ built = {}
    /\ lastOk = None
    /\ loaded = <<>>
    /\ pre = NoPre

\* two threads; create_dir_all may fail, the log files do not; the clock starts
\* in the last tick of a second
Init ==
    /\ clock = Now0 + TicksPerSecond - 1
    /\ fs = Root0
    /\ undel = {}
    /\ faults = {"create"}
    /\ InitLocals

\* the steps of the threads T, with configurations from C and levels from L
NextOf(T, C, L) ==
    \/ Tick
    \/ \E t \in T :
         \/ \E config \in C : InitializeBegin(t, config)
         \/ DeleteByDate(t)
         \/ DeleteByCount(t)
         \/ CreateCurrentLog(t)
         \/ Startup(t)
         \/ InitializeErr(t)
         \/ SetLoggerCheck(t)
         \/ SetLoggerFirst(t)
         \/ SetLoggerStore(t)
         \/ GetLogFilePath(t)
         \/ \E level \in L : FacadeLog(t, level)
         \/ FacadeWrite(t)

Next == NextOf(Threads, Configs, Levels)

Spec == Init /\ [][Next]_vars

\* ------------------------------------------------------------ one caller
\* One thread calls the facade in sequence; create_dir_all may fail, or the log
\* files may fail to open and to be written, or the log root may fail to be read,
\* and the old run folder may be one that cannot be removed.
InitSeq ==
    /\ clock = Now0 + TicksPerSecond - 1
    /\ fs = Root0
    /\ undel \in SUBSET (RunFolders(fs) \cap {OldRun})
    /\ faults \in {{"create"}, {"open", "write"}, {"list"}}
    /\ InitLocals

NextSeq == NextOf({"t1"}, Configs, SeqLevels)

SpecSeq == InitSeq /\ [][NextSeq]_vars

\* ------------------------------------------------------------ retention alone
\* One Logger::new on a log root drawn from: any of seven earlier run folders
\* (around the 7-day limit, recent, and future-dated), foreign entries, at most
\* one run folder that cannot be removed, the clock on or just after a whole second.
RetTimes ==
    {Second0 - 8 * SecondsPerDay, Second0 - 7 * SecondsPerDay - 1,
     Second0 - 7 * SecondsPerDay, Second0 - 6 * SecondsPerDay,
     Second0 - SecondsPerDay, Second0 - 1, Second0 + SecondsPerDay}
RetForeign ==
    {{}, {Dir(OtherName(-1))}, ForeignEntries(Root0)}
RetConfigs ==
    {LoggerConfiguration("txt", d, e, None) :
        d \in {None, Some(0), Some(7)}, e \in {None, Some(0), Some(1), Some(5)}}

InitRet ==
    /\ clock \in {Now0, Now0 + 1}
    /\ \E R \in SUBSET RetTimes, F \in RetForeign :
         fs = {Dir(StampName(x)) : x \in R} \cup F
    /\ undel \in {U \in SUBSET RunFolders(fs) : Cardinality(U) <= 1}
    /\ faults = {"create", "open", "write"}
    /\ InitLocals

NextRet ==
    \/ \E config \in RetConfigs : InitializeBegin("t1", config)
    \/ DeleteByDate("t1")
    \/ DeleteByCount("t1")
    \/ CreateCurrentLog("t1")
    \/ Startup("t1")
    \/ InitializeErr("t1")

SpecRet == InitRet /\ [][NextRet]_vars

\* ------------------------------------------------------------ the level filter
\* One Logger::new on an empty log root and calls on the Logger it returned, with
\* every built-in and custom level and filters of built-in and custom levels; the
\* log file never fails, or its open and its write may fail.
LogConfigs ==
    {LoggerConfiguration("txt", None, None, f) :
        f \in {None, Some(Info), Some(Warn), Some(Custom(30, "NOTE")),
               Some(Custom(25, "STAT"))}}

InitLog ==
    /\ clock = Now0 + TicksPerSecond - 1
    /\ fs = {}
    /\ undel = {}
    /\ faults \in {{}, {"open", "write"}}
    /\ InitLocals

NextLog ==
    \/ \E config \in LogConfigs : InitializeBegin("t1", config)
    \/ DeleteByDate("t1")
    \/ DeleteByCount("t1")
    \/ CreateCurrentLog("t1")
    \/ Startup("t1")
    \/ \E level \in FacadeLevels : LoggerCall("t1", level)

SpecLog == InitLog /\ [][NextLog]_vars

\* ------------------------------------------------------------ a series of runs
\* One thread calls initialize again and again, in the same second or in later
\* ones, with executions_stored from 1 to 3, on a log root that can be read and
\* whose folders can all be removed: any of the run folders, with or without
\* foreign entries.
RunConfigs == {LoggerConfiguration("txt", None, Some(n), None) : n \in 1..3}

InitRuns ==
    /\ clock = Now0 + TicksPerSecond - 1
    /\ \E R \in SUBSET RetTimes, F \in RetForeign :
         fs = {Dir(StampName(x)) : x \in R} \cup F
    /\ undel = {}
    /\ faults = {}
    /\ InitLocals

NextRuns ==
    \/ Tick
    \/ \E config \in RunConfigs : InitializeBegin("t1", config)
    \/ DeleteByDate("t1")
    \/ DeleteByCount("t1")
    \/ CreateCurrentLog("t1")
    \/ Startup("t1")
    \/ SetLoggerCheck("t1")
    \/ SetLoggerFirst("t1")
    \/ SetLoggerStore("t1")

SpecRuns == InitRuns /\ [][NextRuns]_vars

\* ------------------------------------------------------------ the message format
\* One configuration and every format of up to MaxFormatLen characters.

InitCfg ==
    /\ clock = Now0
    /\ fs = {}
    /\ undel = {}
    /\ faults = {}
    /\ InitLocals

NextCfg ==
    \/ SetMessageFormat
    \/ FormatReturned

SpecCfg == InitCfg /\ [][NextCfg]_vars

\* ------------------------------------------------------------ the formatted line
\* One configuration whose message format is set to formats with all six
\* keywords in the default order and in the opposite one, or with {LEVEL} and
\* {MESSAGE} only, each ending with up to MaxNewlines newlines (and one format
\* that is rejected), and format_message calls on it.
AllKeysReversed ==
    KeyMessage \o <<" ">> \o KeyLevel \o <<" ">> \o KeyUserName \o <<" ">>
        \o KeySystemName \o <<" ">> \o KeyExeName \o <<" ">> \o KeyTimestamp
Templates ==
    {body \o Newlines(n) :
        body \in {DEFAULT_MESSAGE_FORMAT, AllKeysReversed, KeyLevel \o KeyMessage,
                  KeyMessage \o KeyLevel},
        n \in 0..MaxNewlines}
    \cup {KeyMessage}

InitFmt ==
    /\ clock = Now0
    /\ fs = {}
    /\ undel = {}
    /\ faults = {}
    /\ InitLocals

NextFmt ==
    \/ SetMessageFormatFrom(Templates)
    \/ FormatReturned
    \/ FormatMessageCall
    \/ FormatMessageReturned

SpecFmt == InitFmt /\ [][NextFmt]_vars

\* ------------------------------------------------------------ properties
\* C1: no step of any initialize call, whatever its days_stored and
\* executions_stored, removes a foreign folder or a plain file from the log root.
C1_ForeignKept == [][ForeignEntries(fs) \subseteq fs']_vars

\* C1 witness: retention removed a run folder and every foreign entry is still there
C1_Witness ==
    /\ Dir(OldRun) \notin fs
    /\ Dir(LastRun) \notin fs
    /\ ForeignEntries(Root0) \subseteq fs

\* the oldest k names of a set of run folders
Oldest(V, k) == {f \in V : Cardinality({g \in V : g.n < f.n}) < k}
Max0(x) == IF x > 0 THEN x ELSE 0

\* C2: with executions_stored = N >= 1 and every deletion succeeding, the count
\* pass of one Logger::new removes exactly the max(0, V - (N - 1)) oldest of the V
\* valid run folders, whatever the number of foreign folders, and nothing else.
C2_CountByValidFolders ==
    (/\ pc["t1"] = "create"
     /\ pre.pass = "count"
     /\ IsSome(logger["t1"].config.executions_stored)
     /\ logger["t1"].config.executions_stored.val >= 1
     /\ undel = {})
    => LET V == RunFolders(pre.fs)
           N == logger["t1"].config.executions_stored.val
       IN /\ RunFolders(fs) = V \ Oldest(V, Max0(Cardinality(V) - (N - 1)))
          /\ ForeignEntries(fs) = ForeignEntries(pre.fs)

\* C3: with days_stored = D and no failing deletion, after the date pass a run
\* folder is gone if and only if its time is strictly before now - D days.
C3_AgeCutoff ==
    (/\ pc["t1"] = "delete_count"
     /\ pre.pass = "date"
     /\ IsSome(logger["t1"].config.days_stored))
    => LET D == logger["t1"].config.days_stored.val
           cutoff == pre.now - D * SecondsPerDay * TicksPerSecond
           old(f) == f.n * TicksPerSecond < cutoff
       IN (\A f \in undel : ~old(f))
          => \A f \in RunFolders(pre.fs) : (f \notin RunFolders(fs)) <=> old(f)

\* C3 witness: D = 7 on a whole second: the folder of 8 days ago is gone, the ones
\* exactly 7 days and 6 days old and the future-dated one are kept
C3_Witness ==
    /\ pc["t1"] = "delete_count"
    /\ pre.pass = "date"
    /\ logger["t1"].config.days_stored = Some(7)
    /\ pre.now = Now0
    /\ undel = {}
    /\ RunFolders(pre.fs) = {StampName(x) : x \in RetTimes}
    /\ RunFolders(fs) = {StampName(x) : x \in RetTimes \ {Second0 - 8 * SecondsPerDay,
                                                         Second0 - 7 * SecondsPerDay - 1}}

\* the line of a message, and the file of a logger after that line was appended
LineOf(message, level) == [message |-> message, level |-> LevelDisplay(level)]
Appended(fl, path, line) ==
    [p \in DOMAIN fl \cup {path} |->
        IF p = path
        THEN (IF path \in DOMAIN fl THEN fl[path] ELSE <<>>) \o <<line>>
        ELSE fl[p]]
Touched(fl, path) ==
    [p \in DOMAIN fl \cup {path} |-> IF p \in DOMAIN fl THEN fl[p] ELSE <<>>]

\* what one Logger::log call of lg with this message and level does in a step:
\* when the level passes the filter the line is printed and appended to the file
\* of lg, unless the file cannot be opened (its folder is gone or the file system
\* fails: reported, the files stay) or written (reported, nothing appended);
\* when it does not pass, nothing at all
EmitsOrSilent(lg, message, level) ==
    LET F == lg.config.filter_log_level
        emit == IsNone(F) \/ Severity(level) >= Severity(F.val)
        line == LineOf(message, level)
        path == lg.log_file_path
    IN IF emit
       THEN /\ stdout' = Append(stdout, line)
            /\ \/ /\ files' = Appended(files, path, line)
                  /\ stderr' = stderr
               \/ /\ "open" \in faults \/ Dir(path.folder) \notin fs
                  /\ files' = files
                  /\ stderr' = stderr \cup {"Unable to open log file"}
               \/ /\ "write" \in faults
                  /\ files' = Touched(files, path)
                  /\ stderr' = stderr \cup {"Unable to write log message to log file"}
       ELSE /\ stdout' = stdout
            /\ files' = files
            /\ stderr' = stderr

\* C4: a log call on a logger (the startup message included) prints its line and
\* appends it to the log file exactly when the logger has no filter or
\* severity(level) >= severity(filter), the severities compared as integers (only
\* a failing file system keeps the line out of the file); otherwise it prints
\* nothing, reports nothing and leaves the files as they are (the log file is not
\* created).
C4_LevelFilter ==
    [][/\ (pc["t1"] = "startup" /\ pc'["t1"] = "built")
             => EmitsOrSilent(logger["t1"], StartupMessage, Info)
       /\ (pc["t1"] = "built" /\ nLog' # nLog)
             => EmitsOrSilent(logger["t1"], nLog', call'["t1"].level)]_vars

\* C4 witness: on a file system that does not fail and under filter Info (30), the
\* custom level NOTE (30) was printed and written to the log file
C4_Witness ==
    /\ faults = {}
    /\ nLog = 1
    /\ logger["t1"].config.filter_log_level = Some(Info)
    /\ call["t1"] = [message |-> 1, level |-> Custom(30, "NOTE")]
    /\ \E i \in 1..Len(stdout) : stdout[i] = [message |-> 1, level |-> "NOTE"]
    /\ logger["t1"].log_file_path \in DOMAIN files
    /\ \E i \in 1..Len(files[logger["t1"].log_file_path]) :
          files[logger["t1"].log_file_path][i] = [message |-> 1, level |-> "NOTE"]

\* the text "Message k" was printed or written to some log file
PrintedOrWritten(k) ==
    \/ \E i \in 1..Len(stdout) : stdout[i].message = k
    \/ \E p \in DOMAIN files : \E i \in 1..Len(files[p]) : files[p][i].message = k

\* a step in which a facade operation is entered (its get_logger runs)
FacadeEntered == nLog' # nLog \/ nPath' # nPath

\* C5: while no initialize has returned Ok, a facade operation returns in its one
\* step, changes neither the log root, the files, stdout nor the registry (which
\* stays empty), only reports to the error stream, and get_log_file_path returns
\* None; a message of such a call is never printed nor written to any log file.
C5_UninitializedNoop ==
    /\ [](\A k \in 1..Len(loaded) : IsNone(loaded[k]) => ~PrintedOrWritten(k))
    /\ [](IsNone(lastOk) => IsNone(LOGGER) /\ \A t \in Threads : pc[t] # "log")
    /\ [][(IsNone(lastOk) /\ FacadeEntered)
            => /\ fs' = fs /\ files' = files /\ stdout' = stdout
               /\ IsNone(LOGGER')
               /\ pc' = pc
               /\ stderr' = stderr \cup {"Logger not initialized"}
               /\ (nPath' # nPath => IsNone(pathRet'))
               /\ (nLog' # nLog => IsNone(loaded'[nLog']))]_vars

\* C5 witness: "Message 1" was logged before any initialize; a later run's log
\* file was written and does not hold it
C5_Witness ==
    /\ nLog = 1
    /\ IsNone(loaded[1])
    /\ IsSome(LOGGER)
    /\ LOGGER.val.log_file_path \in DOMAIN files
    /\ Len(files[LOGGER.val.log_file_path]) > 0
    /\ ~PrintedOrWritten(1)

\* C6: an initialize whose Logger::new succeeded never returns an error because
\* the registry slot is already set.
C6_NeverRejected == \A t \in Threads : initRet[t] # "SetterError"

\* C7: the registry is empty or holds one whole logger that some Logger::new
\* returned (its configuration with its own path), it is never empty again once
\* set, a reader gets None only before the first install, and once an initialize
\* has returned from set_logger the registry holds one of the loggers built.
C7_AtomicReplace ==
    /\ [](IsSome(LOGGER) => LOGGER.val \in built)
    /\ [](\A k \in 1..Len(loaded) : IsSome(loaded[k]) => loaded[k].val \in built)
    /\ []((\E t \in Threads : initRet[t] \in {"Ok", "SetterError"}) => IsSome(LOGGER))
    /\ [][/\ IsSome(LOGGER) => IsSome(LOGGER')
          /\ (nLog' # nLog /\ IsNone(loaded'[nLog'])) => IsNone(lastOk)]_vars

\* C7 witness: both threads ran their first initialize at the same time and have
\* returned; two loggers were built and the registry holds one of them
C7_Witness ==
    /\ initRet = [t \in Threads |-> IF t = "t1" THEN "Ok" ELSE "SetterError"]
    /\ \A t \in Threads : pc[t] = "idle"
    /\ Cardinality(built) = 2
    /\ IsSome(LOGGER)
    /\ LOGGER.val \in built

\* the registry changes only in the step in which an initialize returns Ok and
\* then holds that call's logger; the step in which an initialize returns its I/O
\* error leaves the registry as it was
RegistryKept ==
    /\ LOGGER' # LOGGER
          => \E t \in Threads : /\ initRet[t] = "running"
                                /\ initRet'[t] = "Ok"
                                /\ LOGGER' = Some(logger[t])
    /\ \A t \in Threads :
          (initRet[t] = "running" /\ initRet'[t] = "IoError")
             => LOGGER' = LOGGER /\ lastOk' = lastOk

\* a log call of the caller whose last initialize failed ends in this step
WritesAfterFailedInit(t) ==
    /\ initRet[t] = "IoError"
    /\ pc[t] = "log"
    /\ pc'[t] # "log"

\* C8 as claimed: a failed initialize leaves the registry as it was, and a later
\* log call that passes the filter puts its line into the log file of the
\* previous run (the file system fails at no open and no write).
C8_FailedInitKeepsLogFile ==
    [][/\ RegistryKept
       /\ \A t \in Threads :
             (WritesAfterFailedInit(t)
                /\ ~Filtered(guard[t].val.config.filter_log_level, call[t].level))
                => files' = Appended(files, guard[t].val.log_file_path,
                                     LineOf(call[t].message, call[t].level))]_vars

\* C8 amended: a failed initialize leaves the registry as it was, and a later log
\* call runs on the previous logger (the one last installed) with its filter and
\* its log file path; its line reaches that file when the run folder still
\* exists, and the open fails when the failed call's retention removed the folder.
C8_FailedInitKeepsRegistry ==
    /\ [](\A t \in Threads :
            (pc[t] = "log" /\ initRet[t] = "IoError")
               => guard[t] = lastOk /\ guard[t] = LOGGER)
    /\ [][/\ RegistryKept
          /\ \A t \in Threads :
                WritesAfterFailedInit(t)
                   => /\ EmitsOrSilent(guard[t].val, call[t].message, call[t].level)
                      /\ (/\ ~Filtered(guard[t].val.config.filter_log_level, call[t].level)
                          /\ Dir(guard[t].val.log_file_path.folder) \in fs)
                            => files' = Appended(files, guard[t].val.log_file_path,
                                                 LineOf(call[t].message, call[t].level))]_vars

\* C8 witness: the second initialize failed after its retention had removed the
\* folder of the first run; the registry still holds the first logger, and the
\* later log call was printed and could not open the first run's file
C8_Witness ==
    /\ initRet["t1"] = "IoError"
    /\ nInit = 2
    /\ pc["t1"] = "idle"
    /\ IsSome(LOGGER)
    /\ LOGGER.val.id = 1
    /\ nLog = 1
    /\ loaded[1] = LOGGER
    /\ Dir(LOGGER.val.log_file_path.folder) \notin fs
    /\ \E i \in 1..Len(stdout) : stdout[i].message = 1
    /\ "Unable to open log file" \in stderr

\* C9: the registry holds the logger of the last initialize that returned Ok, is
\* never emptied, and get_log_file_path and every log call get that logger.
C9_LastInstall ==
    /\ [](LOGGER = lastOk)
    /\ [][/\ IsSome(LOGGER) => IsSome(LOGGER')
          /\ nPath' # nPath
                => pathRet' = IF IsSome(lastOk) THEN Some(lastOk.val.log_file_path)
                              ELSE None
          /\ nLog' # nLog => loaded'[nLog'] = lastOk]_vars

\* C9 witness: the caller initialized twice, a second apart; the path read
\* afterwards is the path of the second run
C9_Witness ==
    /\ initRet["t1"] = "Ok"
    /\ nInit = 2
    /\ Cardinality(built) = 2
    /\ Dir(StampName(Second0)) \in fs
    /\ IsSome(LOGGER)
    /\ LOGGER.val.id = 2
    /\ LOGGER.val.log_file_path.folder = StampName(Second0 + 1)
    /\ nPath = 1
    /\ pathRet = Some(LOGGER.val.log_file_path)

\* the lines of the file at a path (none when there is no such file)
LinesAt(fl, path) == IF path \in DOMAIN fl THEN fl[path] ELSE <<>>

\* C10: a log call runs on the logger its get_logger returned, whatever the
\* registry holds by then: the guard stays that logger, the call is never blocked,
\* its filter, its line and its file are the guard's, and when the registry holds
\* another logger by the time the call writes, the message does not get into the
\* file of that new logger.
C10_StaleReader ==
    /\ [](\A t \in Threads :
            pc[t] = "log" => /\ guard[t] = loaded[call[t].message]
                             /\ guard[t].val \in built
                             /\ ENABLED FacadeWrite(t))
    /\ [][\A t \in Threads :
            (pc[t] = "log" /\ pc'[t] # "log")
               => /\ EmitsOrSilent(guard[t].val, call[t].message, call[t].level)
                  /\ guard[t] # LOGGER
                       => \A i \in 1..Len(LinesAt(files', LOGGER.val.log_file_path)) :
                             LinesAt(files', LOGGER.val.log_file_path)[i].message
                                # call[t].message]_vars

\* C11: a set_message_format call returns Ok exactly when its format holds both
\* {MESSAGE} and {LEVEL}, and then the format read back is that format; otherwise
\* it returns InvalidFormat and the field and the format read back (the format
\* accepted last, or the default) are what they were before the call.
C11_MessageFormat ==
    [][IF formatRet = "none"
       THEN LET both == Contains(formatArg', KeyMessage) /\ Contains(formatArg', KeyLevel)
            IN /\ formatRet' = (IF both THEN "Ok" ELSE "InvalidFormat")
               /\ both => get_message_format(message_format') = formatArg'
               /\ ~both => /\ message_format' = message_format
                            /\ get_message_format(message_format')
                                  = get_message_format(message_format)
       ELSE message_format' = message_format]_vars

\* C11 witness: {L}{M} was accepted and the later format {M}{M}, without {LEVEL},
\* was rejected; the field still holds {L}{M}
C11_Witness ==
    /\ formatRet = "InvalidFormat"
    /\ formatArg = KeyMessage \o KeyMessage
    /\ message_format = Some(KeyLevel \o KeyMessage)

\* a step in which thread t's log call runs Logger::log: the startup message of
\* its Logger::new, or its facade call
StartupStep(t) == pc[t] = "startup" /\ pc'[t] # "startup"
WriteStep(t) == pc[t] = "log" /\ pc'[t] # "log"

\* what a Logger::log call that passes the filter does whatever the file does:
\* the line is printed; it is appended, or the failed open or write is reported
\* to the error stream and no line is appended; the log root stays as it is
PrintsWhateverTheFile(lg, message, level) ==
    ~Filtered(lg.config.filter_log_level, level)
       => /\ stdout' = Append(stdout, LineOf(message, level))
          /\ \/ /\ files' = Appended(files, lg.log_file_path, LineOf(message, level))
                /\ stderr' = stderr
             \/ /\ files' = files
                /\ stderr' = stderr \cup {"Unable to open log file"}
             \/ /\ files' = Touched(files, lg.log_file_path)
                /\ stderr' = stderr \cup {"Unable to write log message to log file"}
          /\ fs' = fs

\* C12: a log call that passes the filter prints its line whatever the log file
\* does; a failed open or write is only reported to the error stream; the call
\* returns (a facade call to its caller, the startup message into Logger::new,
\* which goes on to return the logger), and the registry, the logger of the call
\* and the results of the initialize calls stay as they are.
C12_FileFailures ==
    [][\A t \in Threads :
          /\ StartupStep(t)
                => /\ PrintsWhateverTheFile(logger[t], StartupMessage, Info)
                   /\ pc'[t] = "built"
                   /\ logger'[t] = logger[t]
                   /\ LOGGER' = LOGGER /\ initRet' = initRet
          /\ WriteStep(t)
                => /\ PrintsWhateverTheFile(guard[t].val, call[t].message, call[t].level)
                   /\ pc'[t] = "idle"
                   /\ LOGGER' = LOGGER /\ lastOk' = lastOk /\ initRet' = initRet
                   /\ built' = built]_vars

\* C12 witness: the folder of the installed logger exists, the open of its file
\* failed for the facade call: "Message 1" was printed and reported, it is in no
\* file, the call has returned and the registry holds the logger
C12_Witness ==
    /\ "open" \in faults
    /\ nLog = 1
    /\ pc["t1"] = "idle"
    /\ IsSome(LOGGER)
    /\ loaded[1] = LOGGER
    /\ Dir(LOGGER.val.log_file_path.folder) \in fs
    /\ \E i \in 1..Len(stdout) : stdout[i].message = 1
    /\ \A p \in DOMAIN files : \A i \in 1..Len(files[p]) : files[p][i].message # 1
    /\ "Unable to open log file" \in stderr

\* C13: when a retention option is set and reading the log root fails, the
\* retention pass that read it reports an I/O error: Logger::new leaves the pass
\* for its error return, instead of going on as if the root held no folder.
C13_ListingErrorsPropagate ==
    [][\A t \in Threads :
         (/\ pc[t] \in {"delete_date", "delete_count"}
          /\ pc'[t] # pc[t]
          /\ pre'.read = "list")
         => /\ pc'[t] = "new_err"
            /\ fs' = fs]_vars

\* C14: no retention pass removes the run folder that an initialize call still
\* in progress has created, so when initialize returns Ok the run folder of the
\* logger it installed exists.
Created == {"startup", "built", "set_first", "set_store"}

C14_RunFolderSurvives ==
    [][\A t \in Threads :
         /\ (pc[t] \in Created /\ Dir(logger[t].log_file_path.folder) \in fs)
            => Dir(logger[t].log_file_path.folder) \in fs'
         /\ (initRet[t] = "running" /\ initRet'[t] = "Ok")
            => Dir(lastOk'.val.log_file_path.folder) \in fs']_vars

\* C15: every initialize call gets a run folder and a log file of its own: the
\* loggers built by different calls have different log file paths, also when the
\* calls fall into the same whole second.
C15_DistinctPaths ==
    \A l1, l2 \in built :
        l1.id # l2.id
        => /\ l1.log_file_path.folder # l2.log_file_path.folder
           /\ l1.log_file_path # l2.log_file_path

\* C16: a Logger::new prunes, then creates its run folder, then makes one log
\* call with INFO and the startup text through Logger::log (the filter applies,
\* and its log file does not exist before that write); the logger is installed
\* only after that call, and a facade log call never loads a logger whose startup
\* call has not been made.
StartupFirst ==
    /\ [][\A t \in Threads :
            /\ (pc'[t] = "create" /\ pc[t] # "create") => pc[t] = "delete_count"
            /\ (pc'[t] = "startup" /\ pc[t] # "startup")
               => /\ pc[t] = "create"
                  /\ Dir(logger'[t].log_file_path.folder) \in fs'
                  /\ files' = files
            /\ (pc'[t] = "built" /\ pc[t] # "built")
               => /\ pc[t] = "startup"
                  /\ EmitsOrSilent(logger[t], StartupMessage, Info)
                  /\ built' = built \cup {logger[t]}]_vars
    /\ [](IsSome(LOGGER) => LOGGER.val \in built)
    /\ [](\A k \in 1..Len(loaded) : IsSome(loaded[k]) => loaded[k].val \in built)

C16_InitOrder ==
    /\ StartupFirst
    /\ [][\A t \in Threads :
            (pc[t] = "startup" /\ pc'[t] = "built")
            => logger[t].log_file_path \notin DOMAIN files]_vars

\* the names of the directories among the entries
Directories(entries) == {e.name : e \in {x \in entries : x.dir}}
Min(a, b) == IF a < b THEN a ELSE b

\* C17: a count pass that starts with a count k > 0 removes the oldest run folders
\* that can be removed until k are gone: a failed removal is reported, does not
\* count and does not stop the pass, so min(k, number of removable run folders)
\* folders are removed, the oldest removable ones, and nothing else.
C17_CountSkipsFailures ==
    (/\ pc["t1"] = "create"
     /\ pre.pass = "count"
     /\ IsSome(logger["t1"].config.executions_stored))
    => LET V == RunFolders(pre.fs)
           k == NumDelete(Directories(pre.fs), logger["t1"].config.executions_stored.val)
           deletable == V \ undel
           gone == V \ RunFolders(fs)
       IN k > 0
          => /\ gone = Oldest(deletable, k)
             /\ Cardinality(gone) = Min(k, Cardinality(deletable))
             /\ ForeignEntries(fs) = ForeignEntries(pre.fs)
             /\ (\E f \in undel \cap V : \E g \in gone : f.n < g.n)
                => "Failed to delete old log folder" \in stderr

\* C17 witness: k = 1 and the oldest of three or more run folders cannot be
\* removed: it stays and the second oldest is the one removed
C17_Witness ==
    /\ pc["t1"] = "create"
    /\ pre.pass = "count"
    /\ IsSome(logger["t1"].config.executions_stored)
    /\ NumDelete(Directories(pre.fs), logger["t1"].config.executions_stored.val) = 1
    /\ Cardinality(RunFolders(pre.fs)) >= 3
    /\ undel = Oldest(RunFolders(pre.fs), 1)
    /\ RunFolders(pre.fs) \ RunFolders(fs) = Oldest(RunFolders(pre.fs), 2) \ undel

\* C18: a removal that fails, in the date pass or in the count pass, is reported
\* and nothing more: the pass still removes every other candidate, Logger::new
\* goes on to create its run folder (only a failing creation makes it return an
\* error), writes its startup message and returns Ok, and initialize installs
\* the logger.
Expired(entries, days_stored, now) ==
    {f \in RunFolders(entries) :
        f.n * TicksPerSecond < now - days_stored * SecondsPerDay * TicksPerSecond}

C18_DeletionFailuresTolerated ==
    [][\A t \in Threads :
         LET cfg == logger[t].config
             path == [folder |-> FormatFolderName(clock), ext |-> cfg.file_extension]
         IN /\ (pc[t] = "delete_date" /\ pc'[t] # pc[t])
               => /\ pc'[t] = "delete_count"
                  /\ (IsSome(cfg.days_stored) /\ pre'.read = "ok")
                     => RunFolders(fs') = RunFolders(fs)
                           \ (Expired(fs, cfg.days_stored.val, clock) \ undel)
            /\ (pc[t] = "delete_count" /\ pc'[t] # pc[t])
               => /\ pc'[t] = "create"
                  /\ (IsSome(cfg.executions_stored) /\ pre'.read = "ok")
                     => RunFolders(fs') = RunFolders(fs)
                           \ Oldest(RunFolders(fs) \ undel,
                                    NumDelete(Directories(fs), cfg.executions_stored.val))
            /\ (pc[t] = "create" /\ pc'[t] # pc[t])
               => \/ /\ pc'[t] = "startup"
                     /\ Dir(path.folder) \in fs'
                     /\ logger'[t].log_file_path = path
                  \/ /\ pc'[t] = "new_err"
                     /\ "create" \in faults \/ File(path.folder) \in fs
            /\ (pc[t] = "startup" /\ pc'[t] # pc[t]) => pc'[t] = "built"
            /\ (pc[t] = "built" /\ pc'[t] # pc[t]) => pc'[t] \in {"set_first", "set_store"}
            /\ (pc[t] \in {"set_first", "set_store"} /\ pc'[t] # pc[t])
               => /\ initRet'[t] = "Ok"
                  /\ LOGGER' = Some(logger[t])
            /\ (initRet'[t] = "IoError" /\ initRet[t] # "IoError") => pc[t] = "new_err"]_vars

\* C18 witness: the old run folder could not be removed, by the date pass and by
\* the count pass, the other run folder was removed, and the call returned Ok
\* with its logger installed
C18_Witness ==
    /\ undel = {OldRun}
    /\ Dir(OldRun) \in fs
    /\ Dir(LastRun) \notin fs
    /\ "Failed to delete old log folder" \in stderr
    /\ nInit = 1
    /\ initRet["t1"] = "Ok"
    /\ IsSome(LOGGER)
    /\ LOGGER.val.id = 1
    /\ LOGGER.val.config.days_stored = Some(7)
    /\ Dir(LOGGER.val.log_file_path.folder) \in fs

\* what the count pass with executions_stored = 0 leaves: every run folder that
\* can be removed is gone, nothing else is, and after the creation the new run
\* folder is the only one but for those that could not be removed
ZeroKeepsNone ==
    /\ (/\ pc["t1"] = "create"
        /\ pre.pass = "count"
        /\ logger["t1"].config.executions_stored = Some(0))
       => /\ NumDelete(Directories(pre.fs), 0) > 0
          /\ RunFolders(fs) = RunFolders(pre.fs) \cap undel
          /\ ForeignEntries(fs) = ForeignEntries(pre.fs)
    /\ (/\ pc["t1"] = "startup"
        /\ logger["t1"].config.executions_stored = Some(0))
       => /\ Dir(logger["t1"].log_file_path.folder) \in fs
          /\ RunFolders(fs) \ undel = {logger["t1"].log_file_path.folder} \ undel
          /\ undel = {} => Cardinality(RunFolders(fs)) = 1

\* C19: with executions_stored = 0 the count of the pass is the number of valid
\* run folders plus one (no wrap-around), the pass removes every valid run folder
\* and nothing else, also when removals fail, and the creation then leaves the
\* new run folder as the only one when every removal succeeded.
C19_ZeroExecutions ==
    /\ ZeroKeepsNone
    /\ (/\ pc["t1"] = "create"
        /\ pre.pass = "count"
        /\ logger["t1"].config.executions_stored = Some(0))
       => NumDelete(Directories(pre.fs), 0) = Cardinality(RunFolders(pre.fs)) + 1

\* C20: with executions_stored = N >= 1 and removals that succeed, when an
\* initialize of a series of calls has returned Ok the log root holds at most N
\* valid run folders, the new one included.
C20_BoundedFolders ==
    (/\ initRet["t1"] = "Ok"
     /\ IsSome(LOGGER)
     /\ IsSome(LOGGER.val.config.executions_stored)
     /\ LOGGER.val.config.executions_stored.val >= 1
     /\ undel = {})
    => /\ Dir(LOGGER.val.log_file_path.folder) \in fs
       /\ Cardinality(RunFolders(fs)) <= LOGGER.val.config.executions_stored.val

\* C20 witness: the second call of a series, one second after the first, with
\* N = 3 on a root without foreign entries: it removed a run folder and left
\* exactly three, its own included
C20_Witness ==
    /\ initRet["t1"] = "Ok"
    /\ nInit = 2
    /\ IsSome(LOGGER)
    /\ LOGGER.val.id = 2
    /\ LOGGER.val.config.executions_stored = Some(3)
    /\ LOGGER.val.log_file_path.folder = StampName(Second0 + 1)
    /\ RunFolders(fs) = {StampName(Second0 + SecondsPerDay), StampName(Second0),
                         StampName(Second0 + 1)}
    /\ ForeignEntries(fs) = {}

\* C21: the date pass lists and removes exactly when days_stored is set, and then
\* every expired run folder whatever executions_stored is; the count pass lists
\* and removes exactly when executions_stored is set, and then by its count
\* whatever days_stored is; with neither set no step of the call removes an entry
\* and the creation adds the new run folder and nothing else.
C21_IndependentPolicies ==
    [][LET cfg == logger["t1"].config
           D == cfg.days_stored
           N == cfg.executions_stored
           new == Dir(FormatFolderName(clock))
       IN /\ (pc["t1"] = "delete_date" /\ pc'["t1"] # pc["t1"])
             => /\ (pre'.read # "none") <=> IsSome(D)
                /\ IsNone(D) => fs' = fs
                /\ IsSome(D)
                   => RunFolders(fs') = RunFolders(fs) \ (Expired(fs, D.val, clock) \ undel)
                /\ ForeignEntries(fs') = ForeignEntries(fs)
          /\ (pc["t1"] = "delete_count" /\ pc'["t1"] # pc["t1"])
             => /\ (pre'.read # "none") <=> IsSome(N)
                /\ IsNone(N) => fs' = fs
                /\ IsSome(N)
                   => RunFolders(fs') = RunFolders(fs)
                         \ Oldest(RunFolders(fs) \ undel,
                                  NumDelete(Directories(fs), N.val))
                /\ ForeignEntries(fs') = ForeignEntries(fs)
          /\ (pc["t1"] = "create" /\ pc'["t1"] # pc["t1"])
             => fs' \in {fs, fs \cup {new}}
          /\ (pc["t1"] = "create" /\ pc'["t1"] = "startup") => fs' = fs \cup {new}
          /\ (pc["t1"] \notin {"delete_date", "delete_count", "create"}) => fs' = fs]_vars

\* C21 witness: executions_stored = 1 and days_stored not set, on a root with a
\* run folder past any age limit and a newer one: the date pass left both and the
\* count pass removed both
C21_Witness ==
    /\ pc["t1"] = "create"
    /\ pre.pass = "count"
    /\ pre.read = "ok"
    /\ logger["t1"].config.days_stored = None
    /\ logger["t1"].config.executions_stored = Some(1)
    /\ undel = {}
    /\ RunFolders(pre.fs) = {StampName(Second0 - 8 * SecondsPerDay), StampName(Second0 - 1)}
    /\ RunFolders(fs) = {}

\* the newest k names of a set of run folders
Newest(V, k) == {f \in V : Cardinality({g \in V : g.n > f.n}) < k}

\* C22: with both options set, every removal succeeding and no foreign directory,
\* the count pass works on the root as the date pass left it: of the A run
\* folders not older than the cutoff, the newest min(A, N - 1) are the run
\* folders left by the two passes.
C22_AgeThenCount ==
    [][(/\ pc["t1"] = "delete_count"
        /\ pc'["t1"] = "create"
        /\ pre.pass = "date"
        /\ IsSome(logger["t1"].config.days_stored)
        /\ IsSome(logger["t1"].config.executions_stored)
        /\ undel = {}
        /\ Directories(pre.fs) = RunFolders(pre.fs))
       => LET D == logger["t1"].config.days_stored.val
              N == logger["t1"].config.executions_stored.val
              cutoff == pre.now - D * SecondsPerDay * TicksPerSecond
              kept == {f \in RunFolders(pre.fs) : ~(f.n * TicksPerSecond < cutoff)}
          IN /\ RunFolders(fs) = kept
             /\ RunFolders(fs') = Newest(kept, Min(Cardinality(kept), N - 1))]_vars

\* C22 witness: D = 7 and N = 5 on all seven run folders: the date pass removed
\* the two older than the cutoff, the count pass listed five and removed the
\* oldest of them (counted on the first listing it would have removed three)
C22_Witness ==
    /\ pc["t1"] = "create"
    /\ pre.pass = "count"
    /\ logger["t1"].config.days_stored = Some(7)
    /\ logger["t1"].config.executions_stored = Some(5)
    /\ undel = {}
    /\ pre.now = Now0
    /\ pre.fs = {Dir(StampName(x)) : x \in RetTimes \ {Second0 - 8 * SecondsPerDay,
                                                       Second0 - 7 * SecondsPerDay - 1}}
    /\ RunFolders(fs) = {StampName(x) : x \in {Second0 - 6 * SecondsPerDay,
                                                Second0 - SecondsPerDay, Second0 - 1,
                                                Second0 + SecondsPerDay}}

\* the number of newline characters a text ends with
TrailingNewlines(text) ==
    CHOOSE k \in 0..Len(text) :
        /\ \A i \in 1..k : text[Len(text) - i + 1] = "\n"
        /\ k = Len(text) \/ text[Len(text) - k] # "\n"

\* C23, as claimed: whatever the format and the message, the text format_message
\* returns ends with exactly one newline character.
C23_ExactlyOneNewline ==
    IsSome(fmtRet) => TrailingNewlines(fmtRet.val) = 1

\* C23, amended: the text format_message returns ends with a newline; it is the
\* substituted text with one newline appended when that text does not end with
\* one, and the substituted text itself when it does, so it ends with exactly one
\* newline unless the substituted text ends with two or more.
C23_TrailingNewline ==
    [][(IsNone(fmtRet) /\ IsSome(fmtRet'))
       => LET out == fmtRet'.val
              r == Substituted(get_message_format(message_format), fmtArg')
          IN /\ TrailingNewlines(out) >= 1
             /\ TrailingNewlines(r) = 0 => out = r \o <<"\n">>
             /\ TrailingNewlines(r) >= 1 => out = r
             /\ (TrailingNewlines(out) = 1) <=> (TrailingNewlines(r) <= 1)]_vars

\* C23 witness: the format {LEVEL}{MESSAGE} with one newline at its end and a
\* message without one: the text ends with the newline of the format, no second
\* one was added
C23_Witness ==
    /\ message_format = Some(KeyLevel \o KeyMessage \o <<"\n">>)
    /\ fmtArg.level = Info
    /\ fmtArg.message = <<"m">>
    /\ fmtRet = Some(<<"I", "N", "F", "O", " ", " ", " ", "m", "\n">>)

\* the keywords with the text each stands for in a call
KeyValues(a) ==
    {<<KeyTimestamp, a.timestamp>>, <<KeyExeName, a.exe_name>>,
     <<KeySystemName, a.system_name>>, <<KeyUserName, a.user_name>>,
     <<KeyLevel, PadRight(to_string(a.level), LevelWidth)>>,
     <<KeyMessage, a.message>>}

\* the format with every keyword replaced, where it stands in the format, by the
\* text it stands for: the texts put in are not searched
RECURSIVE InPlace(_, _)
InPlace(format, a) ==
    IF format = <<>> THEN <<>>
    ELSE LET at == {kv \in KeyValues(a) :
                      /\ Len(format) >= Len(kv[1])
                      /\ SubSeq(format, 1, Len(kv[1])) = kv[1]}
         IN IF at = {} THEN <<Head(format)>> \o InPlace(Tail(format), a)
            ELSE LET kv == CHOOSE x \in at : TRUE
                 IN kv[2] \o InPlace(SubSeq(format, Len(kv[1]) + 1, Len(format)), a)

\* C24: with a format that holds all six keywords, whatever the message, the level
\* and the names, also when one of them holds a keyword, the text returned is the
\* format with each keyword replaced where it stood by its own value: the message
\* as it is, the level name padded on the right to 7 characters and never cut,
\* the exe, system and user names (and a newline at the end when missing).
C24_RoundTrip ==
    [][(/\ IsNone(fmtRet)
        /\ IsSome(fmtRet')
        /\ \A kv \in KeyValues(fmtArg') :
              Contains(get_message_format(message_format), kv[1]))
       => LET out == fmtRet'.val
              line == InPlace(get_message_format(message_format), fmtArg')
          IN /\ out \in {line, line \o <<"\n">>}
             /\ Contains(out, fmtArg'.message)
             /\ Contains(out, PadRight(to_string(fmtArg'.level), LevelWidth))
             /\ Contains(out, fmtArg'.exe_name)
             /\ Contains(out, fmtArg'.system_name)
             /\ Contains(out, fmtArg'.user_name)]_vars

====
